---- MODULE Spec2Model ----
(***************************************************************************)
(* The real-time notification fan-out of househunt: the connection         *)
(* registry (userConnections), the WebSocket endpoint that feeds it, and   *)
(* createAndBroadcastNotification with its per-recipient async tasks.      *)
(* Node runs every handler to its next await on one thread, so each action *)
(* below is one such run-to-completion segment.                            *)
(***************************************************************************)
EXTENDS Integers, Sequences, FiniteSets, Bags, TLC

\* ---------------------------------------------------------------- bounds
NumUsers == 2
NumChannels == 2
MaxInv == 2
MaxAuth == 3
NumEndpoints == 2
NumKnownUsers == 3
MaxDispatch == 2
MaxMark == 2
MaxIgnored == 1
MaxOver == 1

Users == 1..NumUsers
Channels == 1..NumChannels
Invocations == 1..MaxInv
Endpoints == 1..NumEndpoints
KnownUsers == 1..NumKnownUsers

\* The notification types and the titles the write routes pair with them.
Types == {"apartment_created", "comment_created", "favorite_created"}

\* The title of the direct call in test-notifications-directly.js.
TestTitle == "Test Notification"

\* The message of the direct call in test-notifications-directly.js (line 28).
\* A string is the sequence of its pieces: names and literals are one piece
\* each, a comment's text is one piece per character.
TestMessage(userId) == <<"user" \o ToString(userId), " added a test apartment">>

TitleOf(type) ==
    CASE type = "apartment_created" -> "New Apartment Added"
      [] type = "comment_created" -> "New Comment Added"
      [] OTHER -> "Apartment Favorited"

VARIABLES
    readyState,       \* ws.readyState of every channel handle
    userConnections,  \* Map<string, Set<WebSocket>>: a function on its keys
    closeHandlers,    \* per channel, the userIds captured by its 'close' listeners
    received,         \* per channel, the bag of inbound messages handled
    sent,             \* per channel, the bag of wire messages written to it
    notifications,    \* the rows of the notifications table
    fanout,           \* the createAndBroadcastNotification invocations
    req,              \* the write-route requests, one per fan-out slot
    favorites,        \* the favorites table: rows [id, userId] of the one apartment
    pushSubscriptions,\* the rows of the push_subscriptions table
    pushCall,         \* the sendPushToUser call in progress
    pushAll,          \* the sendPushToAllUsers call in progress
    lastSave,         \* the latest savePushSubscription and what it did
    dispatchCall,     \* the latest direct call of a dispatcher function
    markCalls         \* the mark-read requests answered so far, latest first

coreVars ==
    <<readyState, userConnections, closeHandlers, received, sent, notifications, fanout>>
routeVars == <<req, favorites>>
pushVars == <<pushSubscriptions, pushCall, pushAll, lastSave>>
dispatchVars == <<dispatchCall>>
inboxVars == <<markCalls>>
vars == <<coreVars, routeVars, pushVars, dispatchVars, inboxVars>>

\* ------------------------------------------------------------ Map helpers
EmptyMap == [x \in {} |-> {}]

MapSet(m, k, v) == [x \in (DOMAIN m) \cup {k} |-> IF x = k THEN v ELSE m[x]]

MapDelete(m, k) == [x \in (DOMAIN m) \ {k} |-> m[x]]

\* ------------------------------------------------------------- registry
\* A registration that is not idempotent: a channel already present is taken
\* out of the user's set.
AddUserConnectionToggle(reg, userId, ws) ==
    LET old == IF userId \in DOMAIN reg THEN reg[userId] ELSE {}
    IN  MapSet(reg, userId, IF ws \in old THEN old \ {ws} ELSE old \cup {ws})

\* addUserConnection, lines 9-12: create the set if absent, add the channel.
AddUserConnection(reg, userId, ws) ==
    LET withKey == IF userId \in DOMAIN reg THEN reg ELSE MapSet(reg, userId, {})
    IN  MapSet(withKey, userId, withKey[userId] \cup {ws})

\* A close handler that drops the channel but leaves the emptied entry.
CloseHandlerKeepsEmpty(reg, userId, ws) ==
    IF userId \in DOMAIN reg THEN MapSet(reg, userId, reg[userId] \ {ws}) ELSE reg

\* A close handler that only cleans up emptied entries and forgets the delete.
CloseHandlerNoDelete(reg, userId, ws) ==
    IF userId \in DOMAIN reg /\ reg[userId] = {} THEN MapDelete(reg, userId) ELSE reg

\* The 'close' listener addUserConnection installs, lines 15-23.
CloseHandler(reg, userId, ws) ==
    IF userId \in DOMAIN reg
    THEN LET connections == reg[userId] \ {ws}
         IN  IF connections = {} THEN MapDelete(reg, userId)
             ELSE MapSet(reg, userId, connections)
    ELSE reg

\* removeUserConnection, lines 28-36.
RemoveUserConnection(reg, userId, ws) ==
    IF userId \in DOMAIN reg
    THEN LET connections == reg[userId] \ {ws}
         IN  IF connections = {} THEN MapDelete(reg, userId)
             ELSE MapSet(reg, userId, connections)
    ELSE reg

\* emit('close'): every installed listener runs. Listeners of one userId are
\* idempotent and those of different userIds touch different keys, so the set
\* of captured userIds decides the outcome.
RECURSIVE RunCloseHandlers(_, _, _)
RunCloseHandlers(reg, handlers, ws) ==
    IF handlers = {} THEN reg
    ELSE LET userId == CHOOSE u \in handlers : TRUE
         IN  RunCloseHandlers(CloseHandler(reg, userId, ws), handlers \ {userId}, ws)

\* ---------------------------------------------------------- wire messages
\* An inbound frame: text JSON.parse rejects ("garbage"), the JSON text null
\* ("null"), or a JSON object with a type and a userId. A userId is a user's
\* id, the empty string (EmptyUserId) or absent (MissingUserId).
EmptyUserId == 0
MissingUserId == -1

AuthenticateMsg(userId) == [kind |-> "object", type |-> "authenticate", userId |-> userId]

InboundMessages ==
    {[kind |-> "garbage", type |-> "none", userId |-> MissingUserId],
     [kind |-> "null", type |-> "none", userId |-> MissingUserId]}
    \cup [kind : {"object"}, type : {"authenticate", "ping"},
          userId : Users \cup {EmptyUserId, MissingUserId}]

\* JavaScript truthiness of data.userId: undefined and "" are falsy.
Truthy(userId) == userId # MissingUserId /\ userId # EmptyUserId

\* A test that forgets the message type.
IsAuthenticateAnyType(msg) == msg.kind = "object" /\ Truthy(msg.userId)

\* A test that forgets the userId.
IsAuthenticateAnyUserId(msg) == msg.kind = "object" /\ msg.type = "authenticate"

\* Lines 422-424: JSON.parse throws on garbage and data.type throws on null,
\* both into the catch of line 429; otherwise
\* data.type === 'authenticate' && data.userId.
IsAuthenticate(msg) ==
    msg.kind = "object" /\ msg.type = "authenticate" /\ Truthy(msg.userId)

AuthenticatedMsg(userId) == [type |-> "authenticated", userId |-> userId]

\* A payload built from notificationData, which has no id yet.
NotificationMsgUnsaved(n) ==
    [type |-> "notification", id |-> <<>>, ntype |-> n.type, title |-> n.title]

\* The payload of lines 116-123 inside the envelope of lines 45-48.
NotificationMsg(n) ==
    [type |-> "notification", id |-> n.id, ntype |-> n.type, title |-> n.title]

\* ws.send on one channel.
WsSend(log, ws, msg) == [log EXCEPT ![ws] = @ (+) SetToBag({msg})]

\* A dispatcher that writes to the user's channels whatever their state.
SendNotificationIgnoringState(log, reg, state, userId, msg) ==
    IF userId \notin DOMAIN reg \/ reg[userId] = {} THEN log
    ELSE [c \in Channels |->
            IF c \in reg[userId] THEN log[c] (+) SetToBag({msg}) ELSE log[c]]

\* A dispatcher that writes to every registered channel, whoever owns it.
SendNotificationToEveryone(log, reg, state, userId, msg) ==
    [c \in Channels |->
        IF (\E u \in DOMAIN reg : c \in reg[u]) /\ state[c] = "OPEN"
        THEN log[c] (+) SetToBag({msg}) ELSE log[c]]

\* sendNotificationToUser, lines 38-58: every OPEN channel of the user.
SendNotificationToUser(log, reg, state, userId, msg) ==
    IF userId \notin DOMAIN reg \/ reg[userId] = {} THEN log
    ELSE [c \in Channels |->
            IF c \in reg[userId] /\ state[c] = "OPEN"
            THEN log[c] (+) SetToBag({msg}) ELSE log[c]]

\* sendNotificationToAllUsers, lines 60-80: for every entry but the excluded
\* user's, one write to each OPEN channel of the entry's set.
SendNotificationToAllUsers(log, reg, state, excludeUserId, msg) ==
    [c \in Channels |->
        LET writes == Cardinality({u \in DOMAIN reg :
                                      u # excludeUserId /\ c \in reg[u]})
        IN  IF state[c] = "OPEN" /\ writes > 0
            THEN log[c] (+) [m \in {msg} |-> writes] ELSE log[c]]

\* A guard that tests the size only and forgets the absent entry.
NoConnectionsSizeOnly(reg, userId) == userId \in DOMAIN reg /\ reg[userId] = {}

\* Line 40: !connections || connections.size === 0.
NoConnections(reg, userId) == userId \notin DOMAIN reg \/ reg[userId] = {}

\* How a sendNotificationToUser call ends: the early return of lines 40-43, or
\* the forEach of line 51, a TypeError were connections undefined there.
\* ws.send on an OPEN channel reports its errors by callback, not by throwing.
DispatchOutcome(reg, userId) ==
    IF NoConnections(reg, userId) THEN "returned"
    ELSE IF userId \in DOMAIN reg THEN "returned" ELSE "threw"

\* The notification a direct dispatcher call is handed; its id tells the
\* calls apart.
DirectMsg(k) ==
    NotificationMsg([id |-> <<0, k>>, type |-> "apartment_created",
                     title |-> TestTitle])

IdleDispatch ==
    [count |-> 0, fn |-> "none", userId |-> 0, reg |-> EmptyMap,
     state |-> [c \in Channels |-> "NONE"], outcome |-> "none"]

\* ------------------------------------------------------------- fan-out
\* A recipient policy that forgets the exclusion flag.
TargetUsersNoFilter(keys, actorId, excludeActor) == keys

\* A recipient policy over every known user instead of the registry's keys.
TargetUsersAllKnown(keys, actorId, excludeActor) ==
    {u \in Users : excludeActor => u # actorId}

\* Lines 92-94: the registry's keys, minus the actor when excluded.
TargetUsers(keys, actorId, excludeActor) ==
    {u \in keys : excludeActor => u # actorId}

\* A fan-out that gives up on the recipients still in flight.
AfterRejectAbort(task) ==
    [u \in DOMAIN task |->
        IF task[u] \in {"pending", "stored"} THEN "aborted" ELSE task[u]]

\* Promise.all (line 128) rejects on the first failure and cancels nothing:
\* the other recipients' async functions (lines 102-126) keep running.
AfterReject(task) == task

\* A fan-out without its try/catch.
OnRejectPropagate(status) == IF status = "running" THEN "rejected" ELSE status

\* Lines 131-133: the catch turns a rejection into a normal return.
OnReject(status) == IF status = "running" THEN "resolved" ELSE status

\* Line 128-129: Promise.all resolves once every recipient's function returned.
OnDone(status, task, targets) ==
    IF status = "running" /\ \A u \in targets : task[u] = "done"
    THEN "resolved" ELSE status

IdleInvocation ==
    [status |-> "idle", actor |-> 0, excl |-> TRUE, type |-> "none",
     title |-> "none", message |-> <<>>, snapshot |-> {}, targets |-> {},
     task |-> [u \in Users |-> "none"], quiet |-> TRUE]

\* Whether a started invocation still has a recipient in flight.
InFlight(f) == \E u \in f.targets : f.task[u] \in {"pending", "stored"}

\* History only: quiet says that no channel registered or closed since the
\* invocation started; a registry or readyState change clears it.
Disturb(fo) ==
    [i \in Invocations |->
        IF fo[i].status # "idle" THEN [fo[i] EXCEPT !.quiet = FALSE] ELSE fo[i]]

\* storage.createNotification: one row with a generated id. gen_random_uuid()
\* yields a value no other row has; the pair (invocation, recipient) is one.
CreateNotification(table, data) ==
    table \cup {[data EXCEPT !.id = <<data.inv, data.userId>>]}

\* The authenticate messages handled so far: one reply was written for each.
AuthCount ==
    LET pairs == Channels \X Users
        RECURSIVE Sum(_)
        Sum(S) == IF S = {} THEN 0
                  ELSE LET p == CHOOSE x \in S : TRUE
                       IN  CopiesIn(AuthenticatedMsg(p[2]), sent[p[1]]) + Sum(S \ {p})
    IN  Sum(pairs)

\* The inbound messages handled so far that were not authenticate messages.
IgnoredCount ==
    LET pairs == Channels \X {m \in InboundMessages : ~IsAuthenticate(m)}
        RECURSIVE Sum(_)
        Sum(S) == IF S = {} THEN 0
                  ELSE LET p == CHOOSE x \in S : TRUE
                       IN  CopiesIn(p[2], received[p[1]]) + Sum(S \ {p})
    IN  Sum(pairs)

\* ------------------------------------------------------------- routes
IdleRequest ==
    [route |-> "none", user |-> 0, text |-> <<>>, pc |-> "idle",
     primaryOk |-> FALSE, existing |-> FALSE, isFavorited |-> FALSE,
     apartment |-> "none", status |-> 0]

\* The length from which a comment's text is cut in its notification.
PreviewLength == 50

\* The comment texts posted: position k holds a character that depends on k,
\* and the lengths lie around PreviewLength.
CommentText(n) == [k \in 1..n |-> IF k % 3 = 0 THEN "c" ELSE IF k % 3 = 1 THEN "a" ELSE "b"]

CommentTexts == {CommentText(n) : n \in (PreviewLength - 1)..(PreviewLength + MaxOver)}

\* text.substring(0, n)
Substring0(text, n) == SubSeq(text, 1, IF Len(text) < n THEN Len(text) ELSE n)

Ellipsis == <<".", ".", ".">>

\* A preview that never cuts.
CommentPreviewWhole(text) == text

\* Line 165: comment.text.length > 50 ? comment.text.substring(0, 50) + '...'
\* : comment.text
CommentPreview(text) ==
    IF Len(text) > PreviewLength
    THEN Substring0(text, PreviewLength) \o Ellipsis
    ELSE text

\* getUserDisplayName of the requesting user's row.
UserDisplayName(userId) == "user" \o ToString(userId)

\* apartment.label || apartment.address of the one apartment of the model.
ApartmentName == "Sunny Loft"

\* Line 165: what precedes the preview in a comment's message.
CommentPrefix(userId) == <<UserDisplayName(userId), " commented on ", ApartmentName, ": ">>

\* The message each write route builds: lines 77, 165 and 225.
RouteMessage(route, userId, text) ==
    CASE route = "apartments" ->
            <<UserDisplayName(userId), " added a new apartment: ", ApartmentName>>
      [] route = "comments" -> CommentPrefix(userId) \o CommentPreview(text)
      [] OTHER ->
            <<UserDisplayName(userId), " marked \"", ApartmentName, "\" as a favorite">>

\* The type each write route passes to the fan-out.
RouteType(route) ==
    CASE route = "apartments" -> "apartment_created"
      [] route = "comments" -> "comment_created"
      [] OTHER -> "favorite_created"

\* res.status(201) of the two create routes, res.json (200) of the toggle.
SuccessStatus(route) == IF route = "favorite" THEN 200 ELSE 201

\* The catch of a write route: a ZodError is a 400, anything else a 500.
Failed(rq, status) == [rq EXCEPT !.pc = "done", !.status = status]

\* -------------------------------------------------------------- inbox
\* An UPDATE that fails when it changed no row.
MarkNotificationAsReadStrict(table, id, userId) ==
    [table |-> {IF n.id = id /\ n.userId = userId THEN [n EXCEPT !.isRead = TRUE]
                ELSE n : n \in table},
     error |-> ~\E n \in table : n.id = id /\ n.userId = userId /\ ~n.isRead]

\* storage.markNotificationAsRead(id, userId): is_read becomes true on the row
\* matching both the id and the owner; no matching row is not an error.
MarkNotificationAsRead(table, id, userId) ==
    [table |-> {IF n.id = id /\ n.userId = userId THEN [n EXCEPT !.isRead = TRUE]
                ELSE n : n \in table},
     error |-> FALSE]

\* storage.markAllNotificationsAsRead(userId): is_read becomes true on every
\* row of the owner.
MarkAllNotificationsAsRead(table, userId) ==
    [table |-> {IF n.userId = userId THEN [n EXCEPT !.isRead = TRUE] ELSE n :
                   n \in table},
     error |-> FALSE]

\* A route that marks on behalf of whoever owns the record.
MarkReadArgsOfOwner(id, sessionUser) ==
    [id |-> id,
     userId |-> IF \E n \in notifications : n.id = id
                THEN (CHOOSE n \in notifications : n.id = id).userId
                ELSE sessionUser]

\* Lines 354-356: userId from the session's claims, id from the path.
MarkReadArgs(id, sessionUser) == [id |-> id, userId |-> sessionUser]

\* Lines 357 and 358-361: {success: true}, or the catch's 500.
MarkStatus(storeUp, error) == IF storeUp /\ ~error THEN 200 ELSE 500

\* The ids a request may name: those createNotification can have generated.
NotificationIds == Invocations \X Users

\* What a mark-read request leaves behind: who asked for what, whether the
\* store ran it, the response, whose row the id named before the call (0 for
\* no row), whether that row was read before and is read after, and the ids
\* of the rows the call changed.
MarkCall(route, id, sessionUser, storeUp, status, before, after) ==
    [route |-> route, id |-> id, userId |-> sessionUser, executed |-> storeUp,
     status |-> status,
     owner |-> IF \E n \in before : n.id = id
               THEN (CHOOSE n \in before : n.id = id).userId ELSE 0,
     readBefore |-> \E n \in before : n.id = id /\ n.isRead,
     readAfter |-> \E n \in after : n.id = id /\ n.isRead,
     changed |-> {n.id : n \in before \ after} \cup {n.id : n \in after \ before}]

\* --------------------------------------------------------------- push
NoSave == [endpoint |-> 0, conflict |-> FALSE, added |-> 0]

IdlePushAll ==
    [status |-> "idle", exclude |-> 0, known |-> {}, remaining |-> {},
     invoked |-> [u \in KnownUsers |-> 0], attempted |-> {}, delivered |-> {},
     totalSent |-> 0, result |-> 0]

IdlePushCall ==
    [status |-> "idle", userId |-> 0, caller |-> "direct", loadFailed |-> FALSE,
     loaded |-> {}, remaining |-> {}, attempts |-> [e \in Endpoints |-> 0],
     succeeded |-> {}, transient |-> {}, successCount |-> 0,
     gone |-> {}, result |-> 0]

\* sendPushNotification, lines 198-234: true when webpush.sendNotification
\* resolved, false when it rejected, whatever the rejection; it never throws.
SendPushNotification(outcome) == IF outcome = "ok" THEN "true" ELSE "false"

\* A loop that gives up at the first delivery that did not succeed.
NextSubscriptionsStopOnFailure(remaining, endpoint, success) ==
    IF success = "true" THEN remaining \ {endpoint} ELSE {}

\* The for-of of lines 244-255 moves on to the next subscription whatever the
\* delivery returned.
NextSubscriptions(remaining, endpoint, success) == remaining \ {endpoint}

\* A counter that counts attempts instead of successes.
SuccessCountEveryAttempt(successCount, success) == successCount + 1

\* Lines 246-249: successCount++ when sendPushNotification returned true.
SuccessCount(successCount, success) ==
    IF success = "true" THEN successCount + 1 ELSE successCount

\* A recipient policy over the users with a live channel only.
PushTargetUsersLive(allUsers, excludeUserId) ==
    {u \in allUsers : u # excludeUserId /\ u \in DOMAIN userConnections}

\* Line 271: allUsers.filter(user => user.id !== excludeUserId).
PushTargetUsers(allUsers, excludeUserId) == {u \in allUsers : u # excludeUserId}

\* storage.getAllUsers(): the rows of the users table.
GetAllUsers == KnownUsers

\* The id column's default, gen_random_uuid(): a value no stored row has.
FreshId(table) ==
    CHOOSE i \in 1..(Cardinality(table) + 1) :
        /\ \A s \in table : s.id # i
        /\ \A j \in 1..(i - 1) : \E s \in table : s.id = j

\* An insert that no constraint checks.
InsertPushSubscriptionUnchecked(table, userId, endpoint) ==
    table \cup {[id |-> FreshId(table), userId |-> userId, endpoint |-> endpoint]}

\* An INSERT into push_subscriptions: UNIQUE("endpoint") refuses a second row
\* for an endpoint that has one.
InsertPushSubscription(table, userId, endpoint) ==
    IF \E s \in table : s.endpoint = endpoint THEN table
    ELSE table \cup {[id |-> FreshId(table), userId |-> userId,
                      endpoint |-> endpoint]}

\* storage.savePushSubscription: the insert, and on a conflict on the endpoint
\* the stored row is updated to the new owner and keys.
SavePushSubscription(table, userId, endpoint) ==
    LET inserted == InsertPushSubscription(table, userId, endpoint)
    IN  IF inserted # table THEN inserted
        ELSE {IF s.endpoint = endpoint THEN [s EXCEPT !.userId = userId] ELSE s :
                 s \in table}

\* storage.removePushSubscription(endpoint).
RemovePushSubscription(table, endpoint) == {s \in table : s.endpoint # endpoint}

\* storage.getUserPushSubscriptions(userId).
GetUserPushSubscriptions(table, userId) == {s \in table : s.userId = userId}

\* ---------------------------------------------------------------- Init
Init ==
    /\ readyState = [c \in Channels |-> "NONE"]
    /\ userConnections = EmptyMap
    /\ closeHandlers = [c \in Channels |-> {}]
    /\ received = [c \in Channels |-> EmptyBag]
    /\ sent = [c \in Channels |-> EmptyBag]
    /\ notifications = {}
    /\ fanout = [i \in Invocations |-> IdleInvocation]
    /\ req = [r \in Invocations |-> IdleRequest]
    /\ favorites = {}
    /\ pushSubscriptions = {}
    /\ pushCall = IdlePushCall
    /\ pushAll = IdlePushAll
    /\ lastSave = NoSave
    /\ dispatchCall = IdleDispatch
    /\ markCalls = <<>>

\* -------------------------------------------------------------- actions
\* wss.on('connection'): a new channel handle, OPEN, not yet registered.
Connect(c) ==
    /\ readyState[c] = "NONE"
    /\ \A d \in Channels : d < c => readyState[d] # "NONE"
    /\ readyState' = [readyState EXCEPT ![c] = "OPEN"]
    /\ UNCHANGED <<userConnections, closeHandlers, received, sent, notifications, fanout>>

\* ws.on('message'), lines 420-432: an authenticate message with a userId
\* registers the channel and is answered; any other message, and any message
\* whose handling throws, changes nothing.
Message(c, msg) ==
    /\ readyState[c] = "OPEN"
    /\ received' = [received EXCEPT ![c] = @ (+) SetToBag({msg})]
    /\ IF IsAuthenticate(msg)
       THEN /\ AuthCount < MaxAuth
            /\ userConnections' = AddUserConnection(userConnections, msg.userId, c)
            /\ closeHandlers' = [closeHandlers EXCEPT ![c] = @ \cup {msg.userId}]
            /\ sent' = WsSend(sent, c, AuthenticatedMsg(msg.userId))
            /\ fanout' = Disturb(fanout)
            /\ UNCHANGED <<readyState, notifications>>
       ELSE /\ IgnoredCount < MaxIgnored
            /\ UNCHANGED <<readyState, userConnections, closeHandlers, sent,
                           notifications, fanout>>

\* The message the clients send on open: {type: 'authenticate', userId}.
Authenticate(c, userId) == Message(c, AuthenticateMsg(userId))

\* The closing handshake has started: the channel is no longer OPEN, and its
\* 'close' event has not fired yet.
BeginClose(c) ==
    /\ readyState[c] = "OPEN"
    /\ readyState' = [readyState EXCEPT ![c] = "CLOSING"]
    /\ fanout' = Disturb(fanout)
    /\ UNCHANGED <<userConnections, closeHandlers, received, sent, notifications>>

\* The channel's 'close' event: every listener installed on it runs.
Close(c) ==
    /\ readyState[c] \in {"OPEN", "CLOSING"}
    /\ readyState' = [readyState EXCEPT ![c] = "CLOSED"]
    /\ userConnections' = RunCloseHandlers(userConnections, closeHandlers[c], c)
    /\ fanout' = Disturb(fanout)
    /\ UNCHANGED <<closeHandlers, received, sent, notifications>>

\* A call of the exported removeUserConnection on a registered pair.
Unregister(userId, c) ==
    /\ userId \in DOMAIN userConnections
    /\ c \in userConnections[userId]
    /\ userConnections' = RemoveUserConnection(userConnections, userId, c)
    /\ fanout' = Disturb(fanout)
    /\ UNCHANGED <<readyState, closeHandlers, received, sent, notifications>>

\* A direct call of sendNotificationToUser: the function has no await before
\* its return, so the whole call is one step.
SendToUserCall(userId) ==
    /\ dispatchCall.count < MaxDispatch
    /\ LET k == dispatchCall.count + 1
       IN  /\ sent' = SendNotificationToUser(sent, userConnections, readyState,
                                             userId, DirectMsg(k))
           /\ dispatchCall' =
                 [count |-> k, fn |-> "toUser", userId |-> userId,
                  reg |-> userConnections, state |-> readyState,
                  outcome |-> DispatchOutcome(userConnections, userId)]
    /\ UNCHANGED <<readyState, userConnections, closeHandlers, received, notifications, fanout>>

\* A direct call of sendNotificationToAllUsers, one step for the same reason.
SendToAllUsersCall(excludeUserId) ==
    /\ dispatchCall.count < MaxDispatch
    /\ LET k == dispatchCall.count + 1
       IN  /\ sent' = SendNotificationToAllUsers(sent, userConnections, readyState,
                                                 excludeUserId, DirectMsg(k))
           /\ dispatchCall' =
                 [count |-> k, fn |-> "toAll", userId |-> excludeUserId,
                  reg |-> userConnections, state |-> readyState,
                  outcome |-> "returned"]
    /\ UNCHANGED <<readyState, userConnections, closeHandlers, received, notifications, fanout>>

\* A fan-out that awaits each recipient's insert before issuing the next:
\* only the first recipient's call is issued at the invocation.
IssuedTasksOneByOne(targets) ==
    [u \in Users |->
        IF u \notin targets THEN "none"
        ELSE IF \A v \in targets : u <= v THEN "pending" ELSE "queued"]

\* Lines 102-128: targetUsers.map(async ...) calls every recipient's function
\* synchronously, each running up to its await of createNotification, so all
\* inserts are issued before any settles.
IssuedTasks(targets) ==
    [u \in Users |-> IF u \in targets THEN "pending" ELSE "none"]

\* createAndBroadcastNotification up to its first await: lines 90-113, the
\* snapshot of the keys, the early return, and one createNotification call
\* issued per recipient.
Invoked(type, title, message, actorId, excludeActor) ==
    LET keys == DOMAIN userConnections
        targets == TargetUsers(keys, actorId, excludeActor)
    IN  [status |-> IF targets = {} THEN "resolved" ELSE "running",
         actor |-> actorId, excl |-> excludeActor, type |-> type,
         title |-> title, message |-> message, snapshot |-> keys,
         targets |-> targets,
         task |-> IssuedTasks(targets),
         quiet |-> TRUE]

\* A direct call of createAndBroadcastNotification.
Invoke(i, type, title, message, actorId, excludeActor) ==
    /\ fanout[i].status = "idle"
    /\ \A j \in Invocations : j < i => fanout[j].status # "idle"
    /\ fanout' = [fanout EXCEPT ![i] = Invoked(type, title, message, actorId, excludeActor)]
    /\ UNCHANGED <<readyState, userConnections, closeHandlers, received, sent, notifications>>

\* A fan-out that creates its rows already read.
NotificationDataRead(f, i, userId) ==
    [id |-> <<>>, userId |-> userId, actorId |-> f.actor, type |-> f.type,
     title |-> f.title, message |-> f.message, isRead |-> TRUE, inv |-> i]

\* Lines 103-111: notificationData, with isRead: false.
NotificationData(f, i, userId) ==
    [id |-> <<>>, userId |-> userId, actorId |-> f.actor, type |-> f.type,
     title |-> f.title, message |-> f.message, isRead |-> FALSE, inv |-> i]

\* The store commits one recipient's row (line 113, the insert).
StorageOk(i, userId) ==
    /\ fanout[i].task[userId] = "pending"
    /\ notifications' = CreateNotification(notifications,
                                           NotificationData(fanout[i], i, userId))
    /\ fanout' = [fanout EXCEPT ![i].task[userId] = "stored"]
    /\ UNCHANGED <<readyState, userConnections, closeHandlers, received, sent>>

\* The store rejects one recipient's insert: that task rejects, Promise.all
\* rejects, the catch of lines 131-133 runs.
StorageFail(i, userId) ==
    /\ fanout[i].task[userId] = "pending"
    /\ fanout' = [fanout EXCEPT
          ![i].task = AfterReject([fanout[i].task EXCEPT ![userId] = "failed"]),
          ![i].status = OnReject(@)]
    /\ UNCHANGED <<readyState, userConnections, closeHandlers, received, sent, notifications>>

\* The recipient's async function resumes after line 113 with the created row:
\* lines 116-125, then Promise.all if this was the last one.
Resume(i, userId) ==
    /\ fanout[i].task[userId] = "stored"
    /\ LET n == CHOOSE r \in notifications : r.inv = i /\ r.userId = userId
           task == [fanout[i].task EXCEPT ![userId] = "done"]
       IN  /\ sent' = SendNotificationToUser(sent, userConnections, readyState,
                                             userId, NotificationMsg(n))
           /\ fanout' = [fanout EXCEPT
                 ![i].task = task,
                 ![i].status = OnDone(@, task, fanout[i].targets)]
    /\ UNCHANGED <<readyState, userConnections, closeHandlers, received, notifications>>

\* ------------------------------------------------------- route actions
\* A write route up to its first await: the body is parsed (a ZodError answers
\* 400) and the primary storage call is issued.
RouteStart(r, route, user, valid, text) ==
    /\ req[r].pc = "idle"
    /\ fanout[r].status = "idle"
    /\ \A q \in Invocations : q < r => req[q].pc # "idle"
    /\ req' = [req EXCEPT ![r] =
          IF valid
          THEN [IdleRequest EXCEPT !.route = route, !.user = user, !.text = text,
                                   !.pc = "primary"]
          ELSE [IdleRequest EXCEPT !.route = route, !.user = user,
                                   !.pc = "done", !.status = 400]]
    /\ UNCHANGED <<favorites, coreVars, pushVars, dispatchVars, inboxVars>>

\* createApartment / createComment settles.
PrimaryDone(r, ok) ==
    /\ req[r].pc = "primary"
    /\ req[r].route # "favorite"
    /\ req' = [req EXCEPT ![r] =
          IF ~ok THEN Failed(req[r], 500)
          ELSE [req[r] EXCEPT !.primaryOk = TRUE, !.pc = "getUser"]]
    /\ UNCHANGED <<favorites, coreVars, pushVars, dispatchVars, inboxVars>>

\* The rows of the favorites table for the user and the one apartment.
ExistingFavorites(table, userId) == {f \in table : f.userId = userId}

\* toggleFavorite, storage.ts lines 304-307: the select settles with the rows
\* of (apartment, user), or rejects.
ToggleFavoriteSelected(r, ok) ==
    /\ req[r].pc = "primary"
    /\ req[r].route = "favorite"
    /\ req' = [req EXCEPT ![r] =
          IF ~ok THEN Failed(req[r], 500)
          ELSE [req[r] EXCEPT
                   !.existing = (ExistingFavorites(favorites, req[r].user) # {}),
                   !.pc = "toggleWrite"]]
    /\ UNCHANGED <<favorites, coreVars, pushVars, dispatchVars, inboxVars>>

\* db.insert(favorites).values(favorite), storage.ts line 315: a new row with
\* a generated id; the schema has no constraint on (user_id, apartment_id).
InsertFavorite(table, id, userId) == table \cup {[id |-> id, userId |-> userId]}

\* db.delete(favorites).where(...), storage.ts lines 310-312.
DeleteFavorites(table, userId) == table \ ExistingFavorites(table, userId)

\* toggleFavorite, storage.ts lines 309-317: the delete or the insert chosen
\* from what the select returned settles, and the toggle returns.
ToggleFavoriteWritten(r, ok) ==
    /\ req[r].pc = "toggleWrite"
    /\ IF ~ok
       THEN /\ req' = [req EXCEPT ![r] = Failed(req[r], 500)]
            /\ UNCHANGED favorites
       ELSE /\ favorites' = IF req[r].existing
                            THEN DeleteFavorites(favorites, req[r].user)
                            ELSE InsertFavorite(favorites, r, req[r].user)
            /\ req' = [req EXCEPT ![r].primaryOk = TRUE,
                                  ![r].isFavorited = ~req[r].existing,
                                  ![r].pc = "getApartment"]
    /\ UNCHANGED <<coreVars, pushVars, dispatchVars, inboxVars>>

\* storage.getUser settles. The apartment route (line 68) and the favourite
\* route (line 218) call the fan-out next, the comment route (line 152) looks
\* the apartment up first.
GetUserDone(r, ok) ==
    /\ req[r].pc = "getUser"
    /\ IF ~ok
       THEN /\ req' = [req EXCEPT ![r] = Failed(@, 500)]
            /\ UNCHANGED fanout
       ELSE IF req[r].route = "comments"
       THEN /\ req' = [req EXCEPT ![r].pc = "getApartment"]
            /\ UNCHANGED fanout
       ELSE /\ req' = [req EXCEPT ![r].pc = "fanout"]
            /\ fanout' = [fanout EXCEPT ![r] =
                  Invoked(RouteType(req[r].route), TitleOf(RouteType(req[r].route)),
                          RouteMessage(req[r].route, req[r].user, req[r].text),
                          req[r].user, TRUE)]
    /\ UNCHANGED <<readyState, userConnections, closeHandlers, received, sent, notifications>>
    /\ UNCHANGED <<favorites, pushVars, dispatchVars, inboxVars>>

\* A favourite route that notifies on every toggle of an existing apartment.
ShouldNotifyFavoriteAlways(apartment, isFavorited) == apartment = "row"

\* Line 217: if (apartment && isFavorited).
ShouldNotifyFavorite(apartment, isFavorited) == apartment = "row" /\ isFavorited

\* storage.getApartment settles: a row, undefined, or a rejection. The comment
\* route (lines 156-169) fans out when there is a row; the favourite route
\* (lines 216-229) when there is a row and the toggle left a favourite.
GetApartmentDone(r, outcome) ==
    /\ req[r].pc = "getApartment"
    /\ IF outcome = "throws"
       THEN /\ req' = [req EXCEPT ![r] = Failed(@, 500)]
            /\ UNCHANGED fanout
       ELSE IF req[r].route = "comments" /\ outcome = "row"
       THEN /\ req' = [req EXCEPT ![r].pc = "fanout", ![r].apartment = outcome]
            /\ fanout' = [fanout EXCEPT ![r] =
                  Invoked("comment_created", TitleOf("comment_created"),
                          RouteMessage("comments", req[r].user, req[r].text),
                          req[r].user, TRUE)]
       ELSE IF req[r].route = "favorite"
                 /\ ShouldNotifyFavorite(outcome, req[r].isFavorited)
       THEN /\ req' = [req EXCEPT ![r].pc = "getUser", ![r].apartment = outcome]
            /\ UNCHANGED fanout
       ELSE /\ req' = [req EXCEPT ![r].pc = "done", ![r].apartment = outcome,
                                  ![r].status = SuccessStatus(req[r].route)]
            /\ UNCHANGED fanout
    /\ UNCHANGED <<readyState, userConnections, closeHandlers, received, sent, notifications>>
    /\ UNCHANGED <<favorites, pushVars, dispatchVars, inboxVars>>

\* The awaited fan-out has settled: the success response, or the route's catch
\* had it rejected.
RouteRespond(r) ==
    /\ req[r].pc = "fanout"
    /\ fanout[r].status \in {"resolved", "rejected"}
    /\ req' = [req EXCEPT ![r] =
          IF fanout[r].status = "resolved"
          THEN [req[r] EXCEPT !.pc = "done", !.status = SuccessStatus(req[r].route)]
          ELSE Failed(req[r], 500)]
    /\ UNCHANGED <<favorites, coreVars, pushVars, dispatchVars, inboxVars>>

\* -------------------------------------------------------- push actions
\* POST /api/push/subscribe with a subscription that has an endpoint.
Subscribe(userId, endpoint) ==
    /\ pushSubscriptions' = SavePushSubscription(pushSubscriptions, userId, endpoint)
    /\ pushCall' = [pushCall EXCEPT !.gone = @ \ {endpoint}]
    /\ lastSave' = [endpoint |-> endpoint,
                    conflict |-> \E s \in pushSubscriptions : s.endpoint = endpoint,
                    added |-> Cardinality(pushSubscriptions')
                                 - Cardinality(pushSubscriptions)]
    /\ UNCHANGED <<pushAll, coreVars, routeVars>>

\* POST /api/push/unsubscribe with an endpoint, by a signed-in user
\* (isAuthenticated): the handler reads req.body.endpoint only, and passes
\* nothing else to storage.removePushSubscription.
Unsubscribe(sessionUser, endpoint) ==
    /\ sessionUser \in KnownUsers
    /\ \E s \in pushSubscriptions : s.endpoint = endpoint
    /\ pushSubscriptions' = RemovePushSubscription(pushSubscriptions, endpoint)
    /\ UNCHANGED <<pushCall, pushAll, lastSave, coreVars, routeVars>>

\* sendPushToUser up to its first await (line 241).
SendPushToUserStart(userId) ==
    /\ pushCall.status \in {"idle", "returned"}
    /\ pushAll.status \in {"idle", "returned"}
    /\ pushCall' = [IdlePushCall EXCEPT !.status = "loading", !.userId = userId]
    /\ UNCHANGED <<pushSubscriptions, pushAll, lastSave, coreVars, routeVars>>

\* getUserPushSubscriptions settles: the rows to loop over (lines 241-244), or
\* the outer catch (lines 259-262). An empty list returns at once.
SendPushToUserLoaded(ok) ==
    /\ pushCall.status = "loading"
    /\ LET subs == GetUserPushSubscriptions(pushSubscriptions, pushCall.userId)
       IN  pushCall' =
              IF ~ok THEN [pushCall EXCEPT !.status = "returned", !.result = 0,
                                           !.loadFailed = TRUE]
              ELSE IF subs = {}
              THEN [pushCall EXCEPT !.status = "returned", !.result = 0]
              ELSE [pushCall EXCEPT !.status = "sending", !.loaded = subs,
                                    !.remaining = {x.endpoint : x \in subs}]
    /\ UNCHANGED <<pushSubscriptions, pushAll, lastSave, coreVars, routeVars>>

\* One iteration of the loop of lines 244-255: the provider answers for one
\* subscription, and the function returns after the last one (lines 257-258).
SendPushToUserAttempt(endpoint, outcome) ==
    /\ pushCall.status = "sending"
    /\ endpoint \in pushCall.remaining
    /\ LET success == SendPushNotification(outcome)
           left == NextSubscriptions(pushCall.remaining, endpoint, success)
           count == SuccessCount(pushCall.successCount, success)
           row == CHOOSE x \in pushCall.loaded : x.endpoint = endpoint
       IN  /\ pushSubscriptions' =
                 IF success = "throws"
                 THEN RemovePushSubscription(pushSubscriptions, endpoint)
                 ELSE pushSubscriptions
           /\ pushCall' = [pushCall EXCEPT
                 !.remaining = left,
                 !.successCount = count,
                 !.attempts[endpoint] = @ + 1,
                 !.succeeded = IF outcome = "ok" THEN @ \cup {endpoint} ELSE @,
                 !.transient = IF outcome = "transient" THEN @ \cup {endpoint} ELSE @,
                 !.gone = IF outcome = "gone" THEN @ \cup {endpoint} ELSE @,
                 !.status = IF left = {} THEN "returned" ELSE "sending",
                 !.result = IF left = {} THEN count ELSE @]
           /\ pushAll' =
                 IF pushCall.caller = "all"
                 THEN [pushAll EXCEPT
                         !.attempted = @ \cup {row},
                         !.delivered = IF outcome = "ok" THEN @ \cup {row} ELSE @]
                 ELSE pushAll
    /\ UNCHANGED <<lastSave, coreVars, routeVars>>

\* The sendPushToUser call sendPushToAllUsers issues for one user (line 276),
\* up to that call's first await.
PushCallFor(userId) ==
    [IdlePushCall EXCEPT !.status = "loading", !.userId = userId, !.caller = "all"]

\* sendPushToAllUsers up to its first await (line 270).
SendPushToAllUsersStart(excludeUserId) ==
    /\ pushAll.status \in {"idle", "returned"}
    /\ pushCall.status \in {"idle", "returned"}
    /\ pushAll' = [IdlePushAll EXCEPT !.status = "loading", !.exclude = excludeUserId]
    /\ UNCHANGED <<pushSubscriptions, pushCall, lastSave, coreVars, routeVars>>

\* getAllUsers settles: the catch of lines 282-285, or the filter of line 271
\* and the first sendPushToUser call of the loop (none when no user is left).
SendPushToAllUsersLoaded(ok, first) ==
    /\ pushAll.status = "loading"
    /\ LET targetUsers == PushTargetUsers(GetAllUsers, pushAll.exclude)
       IN  IF ~ok
           THEN /\ pushAll' = [pushAll EXCEPT !.status = "returned", !.result = 0]
                /\ UNCHANGED pushCall
           ELSE IF targetUsers = {}
           THEN /\ pushAll' = [pushAll EXCEPT !.status = "returned", !.result = 0,
                                              !.known = GetAllUsers]
                /\ UNCHANGED pushCall
           ELSE /\ first \in targetUsers
                /\ pushAll' = [pushAll EXCEPT
                      !.status = "awaiting", !.known = GetAllUsers,
                      !.remaining = targetUsers \ {first},
                      !.invoked[first] = @ + 1]
                /\ pushCall' = PushCallFor(first)
    /\ UNCHANGED <<pushSubscriptions, lastSave, coreVars, routeVars>>

\* The awaited sendPushToUser returned: line 277, then the next user's call or
\* the return of line 281.
SendPushToAllUsersResume(next) ==
    /\ pushAll.status = "awaiting"
    /\ pushCall.status = "returned"
    /\ pushCall.caller = "all"
    /\ LET totalSent == pushAll.totalSent + pushCall.result
       IN  IF pushAll.remaining = {}
           THEN /\ pushAll' = [pushAll EXCEPT !.status = "returned",
                                              !.totalSent = totalSent,
                                              !.result = totalSent]
                /\ pushCall' = [pushCall EXCEPT !.caller = "direct"]
           ELSE /\ next \in pushAll.remaining
                /\ pushAll' = [pushAll EXCEPT
                      !.totalSent = totalSent,
                      !.remaining = @ \ {next},
                      !.invoked[next] = @ + 1]
                /\ pushCall' = PushCallFor(next)
    /\ UNCHANGED <<pushSubscriptions, lastSave, coreVars, routeVars>>

\* ------------------------------------------------------- inbox actions
\* PATCH /api/notifications/:id/read by the session's user: the store runs the
\* update (or is down and the call rejects), then the response.
MarkReadRoute(id, sessionUser, storeUp) ==
    /\ Len(markCalls) < MaxMark
    /\ LET args == MarkReadArgs(id, sessionUser)
           result == MarkNotificationAsRead(notifications, args.id, args.userId)
       IN  /\ notifications' = IF storeUp THEN result.table ELSE notifications
           /\ markCalls' =
                 <<MarkCall("read", id, sessionUser, storeUp,
                            MarkStatus(storeUp, result.error),
                            notifications, notifications')>> \o markCalls
    /\ UNCHANGED <<readyState, userConnections, closeHandlers, received, sent, fanout>>

\* PATCH /api/notifications/read-all by the session's user.
MarkAllReadRoute(sessionUser, storeUp) ==
    /\ Len(markCalls) < MaxMark
    /\ LET result == MarkAllNotificationsAsRead(notifications, sessionUser)
       IN  /\ notifications' = IF storeUp THEN result.table ELSE notifications
           /\ markCalls' =
                 <<MarkCall("readAll", <<>>, sessionUser, storeUp,
                            MarkStatus(storeUp, result.error),
                            notifications, notifications')>> \o markCalls
    /\ UNCHANGED <<readyState, userConnections, closeHandlers, received, sent, fanout>>

\* ------------------------------------------------------- specifications
\* The server as it runs: the WebSocket endpoint and direct invocations of the
\* fan-out (test-notifications-directly.js). removeUserConnection has no caller.
Next ==
    /\ \/ \E c \in Channels : Connect(c)
       \/ \E c \in Channels, u \in Users : Authenticate(c, u)
       \/ \E c \in Channels : BeginClose(c)
       \/ \E c \in Channels : Close(c)
       \/ \E i \in Invocations, a \in Users, e \in BOOLEAN :
             Invoke(i, "apartment_created", TestTitle, TestMessage(a), a, e)
       \/ \E i \in Invocations, u \in Users : StorageOk(i, u)
       \/ \E i \in Invocations, u \in Users : StorageFail(i, u)
       \/ \E i \in Invocations, u \in Users : Resume(i, u)
    /\ UNCHANGED <<routeVars, pushVars, dispatchVars, inboxVars>>

Spec == Init /\ [][Next]_vars

\* The registry alone, under every call its exported interface accepts.
NextRegistry ==
    /\ \/ \E c \in Channels : Connect(c)
       \/ \E c \in Channels, u \in Users : Authenticate(c, u)
       \/ \E c \in Channels : BeginClose(c)
       \/ \E c \in Channels : Close(c)
       \/ \E c \in Channels, u \in Users : Unregister(u, c)
    /\ UNCHANGED <<routeVars, pushVars, dispatchVars, inboxVars>>

SpecRegistry == Init /\ [][NextRegistry]_vars

\* The WebSocket endpoint under every inbound message.
NextEndpoint ==
    /\ \/ \E c \in Channels : Connect(c)
       \/ \E c \in Channels, msg \in InboundMessages : Message(c, msg)
       \/ \E c \in Channels : BeginClose(c)
       \/ \E c \in Channels : Close(c)
    /\ UNCHANGED <<routeVars, pushVars, dispatchVars, inboxVars>>

SpecEndpoint == Init /\ [][NextEndpoint]_vars

\* The dispatcher functions called directly while channels come and go.
NextDispatch ==
    \/ ((\/ \E c \in Channels : Connect(c)
         \/ \E c \in Channels, u \in Users : Authenticate(c, u)
         \/ \E c \in Channels : BeginClose(c)
         \/ \E c \in Channels : Close(c))
        /\ UNCHANGED <<routeVars, pushVars, dispatchVars, inboxVars>>)
    \/ ((\E u \in Users : SendToUserCall(u))
        /\ UNCHANGED <<routeVars, pushVars, inboxVars>>)
    \/ ((\E x \in Users : SendToAllUsersCall(x))
        /\ UNCHANGED <<routeVars, pushVars, inboxVars>>)

SpecDispatch == Init /\ [][NextDispatch]_vars

\* The notification routes next to the fan-out that creates the rows, each
\* user holding one open registered channel.
InitInbox ==
    /\ readyState = [c \in Channels |-> IF c \in Users THEN "OPEN" ELSE "NONE"]
    /\ userConnections = [u \in Users \cap Channels |-> {u}]
    /\ closeHandlers = [c \in Channels |-> IF c \in Users THEN {c} ELSE {}]
    /\ received = [c \in Channels |->
                      IF c \in Users THEN SetToBag({AuthenticateMsg(c)}) ELSE EmptyBag]
    /\ sent = [c \in Channels |->
                  IF c \in Users THEN SetToBag({AuthenticatedMsg(c)}) ELSE EmptyBag]
    /\ notifications = {}
    /\ fanout = [i \in Invocations |-> IdleInvocation]
    /\ req = [r \in Invocations |-> IdleRequest]
    /\ favorites = {}
    /\ pushSubscriptions = {}
    /\ pushCall = IdlePushCall
    /\ pushAll = IdlePushAll
    /\ lastSave = NoSave
    /\ dispatchCall = IdleDispatch
    /\ markCalls = <<>>

NextInbox ==
    \/ ((\/ \E i \in Invocations, a \in Users, e \in BOOLEAN :
               Invoke(i, "apartment_created", TestTitle, TestMessage(a), a, e)
         \/ \E i \in Invocations, u \in Users : StorageOk(i, u)
         \/ \E i \in Invocations, u \in Users : Resume(i, u))
        /\ UNCHANGED <<routeVars, pushVars, dispatchVars, inboxVars>>)
    \/ ((\/ \E id \in NotificationIds, u \in Users, up \in BOOLEAN :
               MarkReadRoute(id, u, up)
         \/ \E u \in Users, up \in BOOLEAN : MarkAllReadRoute(u, up))
        /\ UNCHANGED <<routeVars, pushVars, dispatchVars>>)

SpecInbox == InitInbox /\ [][NextInbox]_vars

\* The write routes over a registry in which every channel is open and
\* authenticated under one user.
InitRoutes ==
    \E owner \in [Channels -> Users] :
        /\ readyState = [c \in Channels |-> "OPEN"]
        /\ userConnections =
              [u \in {owner[c] : c \in Channels} |-> {c \in Channels : owner[c] = u}]
        /\ closeHandlers = [c \in Channels |-> {owner[c]}]
        /\ received = [c \in Channels |-> SetToBag({AuthenticateMsg(owner[c])})]
        /\ sent = [c \in Channels |-> SetToBag({AuthenticatedMsg(owner[c])})]
        /\ notifications = {}
        /\ fanout = [i \in Invocations |-> IdleInvocation]
        /\ req = [r \in Invocations |-> IdleRequest]
        /\ favorites = {}
        /\ pushSubscriptions = {}
        /\ pushCall = IdlePushCall
        /\ pushAll = IdlePushAll
        /\ lastSave = NoSave
    /\ lastSave = NoSave
        /\ dispatchCall = IdleDispatch
        /\ markCalls = <<>>
    /\ pushAll = IdlePushAll
    /\ lastSave = NoSave
    /\ dispatchCall = IdleDispatch
    /\ markCalls = <<>>

NextRoutes ==
    \/ \E r \in Invocations, u \in Users, v \in BOOLEAN :
          \E route \in {"apartments", "comments", "favorite"} :
              \E text \in IF route = "comments" THEN CommentTexts ELSE {<<>>} :
                  RouteStart(r, route, u, v, text)
    \/ \E r \in Invocations, ok \in BOOLEAN : PrimaryDone(r, ok)
    \/ \E r \in Invocations, ok \in BOOLEAN : ToggleFavoriteSelected(r, ok)
    \/ \E r \in Invocations, ok \in BOOLEAN : ToggleFavoriteWritten(r, ok)
    \/ \E r \in Invocations, ok \in BOOLEAN : GetUserDone(r, ok)
    \/ \E r \in Invocations, o \in {"row", "undefined", "throws"} : GetApartmentDone(r, o)
    \/ \E r \in Invocations : RouteRespond(r)
    \/ (\E i \in Invocations, u \in Users : StorageOk(i, u))
          /\ UNCHANGED <<routeVars, pushVars, dispatchVars, inboxVars>>
    \/ (\E i \in Invocations, u \in Users : StorageFail(i, u))
          /\ UNCHANGED <<routeVars, pushVars, dispatchVars, inboxVars>>
    \/ (\E i \in Invocations, u \in Users : Resume(i, u))
          /\ UNCHANGED <<routeVars, pushVars, dispatchVars, inboxVars>>

SpecRoutes == InitRoutes /\ [][NextRoutes]_vars

\* The push side channel: subscriptions come and go while sendPushToUser runs.
NextPush ==
    /\ \/ \E u \in KnownUsers, e \in Endpoints : Subscribe(u, e)
       \/ \E v \in KnownUsers, e \in Endpoints : Unsubscribe(v, e)
       \/ \E u \in KnownUsers : SendPushToUserStart(u)
       \/ \E ok \in BOOLEAN : SendPushToUserLoaded(ok)
       \/ \E e \in Endpoints, o \in {"ok", "transient", "gone"} :
             SendPushToUserAttempt(e, o)
    /\ UNCHANGED <<dispatchVars, inboxVars>>

SpecPush == Init /\ [][NextPush]_vars

\* One sendPushToAllUsers call followed to its return, with the sendPushToUser
\* calls it issues, while subscriptions come and go. The first user holds an
\* open registered channel, the other users none.
InitPushAll ==
    /\ readyState = [c \in Channels |-> IF c = 1 THEN "OPEN" ELSE "NONE"]
    /\ userConnections = [u \in {1} |-> {1}]
    /\ closeHandlers = [c \in Channels |-> IF c = 1 THEN {1} ELSE {}]
    /\ received = [c \in Channels |->
                      IF c = 1 THEN SetToBag({AuthenticateMsg(1)}) ELSE EmptyBag]
    /\ sent = [c \in Channels |->
                  IF c = 1 THEN SetToBag({AuthenticatedMsg(1)}) ELSE EmptyBag]
    /\ notifications = {}
    /\ fanout = [i \in Invocations |-> IdleInvocation]
    /\ req = [r \in Invocations |-> IdleRequest]
    /\ favorites = {}
    /\ pushSubscriptions = {}
    /\ pushCall = IdlePushCall
    /\ pushAll = IdlePushAll
    /\ lastSave = NoSave
    /\ dispatchCall = IdleDispatch
    /\ markCalls = <<>>

NextPushAll ==
    /\ \/ /\ pushAll.status # "returned"
          /\ \E u \in KnownUsers, e \in Endpoints : Subscribe(u, e)
       \/ /\ pushAll.status # "returned"
          /\ \E v \in KnownUsers, e \in Endpoints : Unsubscribe(v, e)
       \/ /\ pushAll.status = "idle"
          /\ \E x \in KnownUsers : SendPushToAllUsersStart(x)
       \/ \E ok \in BOOLEAN, u \in KnownUsers : SendPushToAllUsersLoaded(ok, u)
       \/ \E u \in KnownUsers : SendPushToAllUsersResume(u)
       \/ \E ok \in BOOLEAN : SendPushToUserLoaded(ok)
       \/ \E e \in Endpoints, o \in {"ok", "transient"} : SendPushToUserAttempt(e, o)
    /\ UNCHANGED <<dispatchVars, inboxVars>>

SpecPushAll == InitPushAll /\ [][NextPushAll]_vars

\* ------------------------------------------------------ derived notions
\* The users whose connection set holds the channel.
OwnersOf(c) == {u \in DOMAIN userConnections : c \in userConnections[u]}

\* The rows one invocation created.
RecordsOf(i) == {n \in notifications : n.inv = i}

\* How many notification wire messages of invocation i the channel was sent.
RECURSIVE CountCopies(_, _)
CountCopies(S, bag) ==
    IF S = {} THEN 0
    ELSE LET m == CHOOSE x \in S : TRUE
         IN  CopiesIn(m, bag) + CountCopies(S \ {m}, bag)

WireCount(i, c) == CountCopies({NotificationMsg(n) : n \in RecordsOf(i)}, sent[c])

NotificationMsgsOn(c) == {m \in BagToSet(sent[c]) : m.type = "notification"}

\* ------------------------------------------------------------------ C1
\* C1: once a channel's close event has fired, the channel is in no user's
\* connection set, and a user it was registered under is absent from
\* userConnections unless that user still has a channel that has not closed.
C1_RegistryCleanup ==
    \A c \in Channels :
        readyState[c] = "CLOSED" =>
            /\ OwnersOf(c) = {}
            /\ \A u \in closeHandlers[c] :
                  u \in DOMAIN userConnections =>
                      \E d \in userConnections[u] : readyState[d] # "CLOSED"

\* A channel registered under two userIds has closed, and so did every channel:
\* the registry is empty again.
C1_Witness ==
    /\ \E c \in Channels :
          readyState[c] = "CLOSED" /\ Cardinality(closeHandlers[c]) >= 2
    /\ DOMAIN userConnections = {}

\* ------------------------------------------------------------------ C2
\* C2: a channel handle is a member of at most one user's connection set.
C2_SingleOwner == \A c \in Channels : Cardinality(OwnersOf(c)) <= 1

\* ----------------------------------------------------------------- C10
\* C10: every key of userConnections maps to a non-empty set of channels.
C10_NoEmptySet == \A u \in DOMAIN userConnections : userConnections[u] # {}

\* A user lost its last channel by removeUserConnection while that channel is
\* still open, and the user's key is gone.
C10_Witness ==
    \E c \in Channels, u \in Users :
        /\ readyState[c] = "OPEN"
        /\ u \in closeHandlers[c]
        /\ u \notin DOMAIN userConnections

\* ------------------------------------------------------------------ C3
\* C3: an invocation with excludeActorFromNotification = true creates no
\* notification row whose recipient is its actor.
C3_Exclusion ==
    \A n \in notifications :
        fanout[n.inv].excl => n.userId # fanout[n.inv].actor

\* An excluding invocation whose actor was registered when it was invoked has
\* created a row while another invocation is in flight.
C3_Witness ==
    \E n \in notifications :
        /\ fanout[n.inv].excl
        /\ fanout[n.inv].actor \in fanout[n.inv].snapshot
        /\ \E j \in Invocations : j # n.inv /\ InFlight(fanout[j])

\* ------------------------------------------------------------------ C4
\* The state half of C4: once R1's createNotification has failed, every other
\* recipient R2 of the same fan-out is still being processed (its insert can
\* complete, its function can resume) or has finished on its own outcome, and
\* a finished R2 has its row.
C4_StillProcessed ==
    \A i \in Invocations : \A r1, r2 \in fanout[i].targets :
        (r1 # r2 /\ fanout[i].task[r1] = "failed") =>
            \/ fanout[i].task[r2] = "pending" /\ ENABLED StorageOk(i, r2)
            \/ /\ fanout[i].task[r2] = "stored"
               /\ \E n \in RecordsOf(i) : n.userId = r2
               /\ ENABLED Resume(i, r2)
            \/ /\ fanout[i].task[r2] = "done"
               /\ \E n \in RecordsOf(i) : n.userId = r2
            \/ fanout[i].task[r2] = "failed"

\* The step half of C4: after R1's failure, the step that resumes R2 writes
\* the wire message of R2's row once to every OPEN channel registered under R2.
C4_StillDispatched ==
    \A i \in Invocations : \A r1, r2 \in Users :
        (/\ r1 # r2
         /\ fanout[i].task[r1] = "failed"
         /\ fanout[i].task[r2] = "stored"
         /\ fanout'[i].task[r2] = "done")
        => \A n \in RecordsOf(i) : \A c \in Channels :
              (/\ n.userId = r2
               /\ r2 \in DOMAIN userConnections
               /\ c \in userConnections[r2]
               /\ readyState[c] = "OPEN")
              => CopiesIn(NotificationMsg(n), sent'[c])
                    = CopiesIn(NotificationMsg(n), sent[c]) + 1

\* C4: if createNotification fails for R1, a row for R2 is still created and a
\* wire message for that row is still written to R2's open channels.
C4_Isolation == []C4_StillProcessed /\ [][C4_StillDispatched]_vars

\* R1's insert failed; R2 of the same fan-out has its row, and an open channel
\* of R2 holds that row's wire message.
C4_Witness ==
    \E i \in Invocations : \E r1, r2 \in fanout[i].targets :
        /\ r1 # r2
        /\ fanout[i].task[r1] = "failed"
        /\ fanout[i].task[r2] = "done"
        /\ \E n \in RecordsOf(i) : \E c \in Channels :
              /\ n.userId = r2
              /\ readyState[c] = "OPEN"
              /\ CopiesIn(NotificationMsg(n), sent[c]) = 1

\* ------------------------------------------------------------------ C7
\* C7: createAndBroadcastNotification never rejects: whatever recipients'
\* createNotification fail, the call has returned normally, and it returns
\* once every recipient is done.
C7_NeverRejects ==
    \A i \in Invocations :
        LET f == fanout[i]
        IN  /\ f.status \in {"idle", "running", "resolved"}
            /\ (\E u \in f.targets : f.task[u] = "failed") => f.status = "resolved"
            /\ (f.status # "idle" /\ \A u \in f.targets : f.task[u] = "done")
                  => f.status = "resolved"

\* Every one of two or more recipients failed, and the call returned.
C7_Witness ==
    \E i \in Invocations :
        /\ Cardinality(fanout[i].targets) >= 2
        /\ \A u \in fanout[i].targets : fanout[i].task[u] = "failed"
        /\ fanout[i].status = "resolved"

\* ------------------------------------------------------------------ C8
\* C8: a user with no registered channel when the fan-out is invoked gets no
\* row and no wire message of that event, and an invocation (five-argument
\* form, the actor excluded) that finds no user but the actor in the registry
\* creates no row and writes no message.
C8_LiveRecipientsOnly ==
    /\ \A n \in notifications : n.userId \in fanout[n.inv].snapshot
    /\ \A c \in Channels : \A m \in NotificationMsgsOn(c) :
          \E n \in notifications :
              m = NotificationMsg(n) /\ n.userId \in fanout[n.inv].snapshot
    /\ \A i \in Invocations :
          (fanout[i].status # "idle" /\ fanout[i].excl
              /\ fanout[i].snapshot \subseteq {fanout[i].actor})
          => /\ RecordsOf(i) = {}
             /\ fanout[i].status = "resolved"
             /\ \A c \in Channels : \A m \in NotificationMsgsOn(c) : m.id[1] # i

\* The actor alone was registered at the invocation; another user registered
\* afterwards, and another invocation did create a row meanwhile.
C8_Witness ==
    \E i \in Invocations :
        /\ fanout[i].status = "resolved"
        /\ fanout[i].excl
        /\ fanout[i].snapshot = {fanout[i].actor}
        /\ \E u \in DOMAIN userConnections : u \notin fanout[i].snapshot
        /\ \E j \in Invocations : j # i /\ RecordsOf(j) # {}

\* ------------------------------------------------------------------ C9
\* C9 (Scenario A): the actor U1 and U2 each hold one open registered channel,
\* nothing registers or closes during the fan-out and persistence succeeds:
\* exactly one row exists (recipient U2), U2's channel got exactly one
\* notification message, carrying that row's title, and U1's channel none.
C9_ScenarioA ==
    \A i \in Invocations : \A a, b \in Users : \A ca, cb \in Channels :
        (/\ a # b /\ ca # cb
         /\ fanout[i].status = "resolved" /\ fanout[i].quiet
         /\ fanout[i].actor = a /\ fanout[i].excl
         /\ fanout[i].task[b] = "done"
         /\ DOMAIN userConnections = {a, b}
         /\ userConnections[a] = {ca} /\ userConnections[b] = {cb}
         /\ readyState[ca] = "OPEN" /\ readyState[cb] = "OPEN")
        => /\ Cardinality(RecordsOf(i)) = 1
           /\ \A n \in RecordsOf(i) :
                 /\ n.userId = b
                 /\ CopiesIn(NotificationMsg(n), sent[cb]) = 1
                 /\ \A m \in NotificationMsgsOn(cb) :
                       m.id = n.id => m.title = n.title
           /\ WireCount(i, cb) = 1
           /\ WireCount(i, ca) = 0
           /\ \A m \in NotificationMsgsOn(ca) : m.id[1] # i

\* Scenario A has run to its end.
C9_Witness ==
    \E i \in Invocations : \E a, b \in Users : \E ca, cb \in Channels :
        /\ a # b /\ ca # cb
        /\ fanout[i].status = "resolved" /\ fanout[i].quiet
        /\ fanout[i].actor = a /\ fanout[i].excl
        /\ fanout[i].task[b] = "done"
        /\ DOMAIN userConnections = {a, b}
        /\ userConnections[a] = {ca} /\ userConnections[b] = {cb}
        /\ readyState[ca] = "OPEN" /\ readyState[cb] = "OPEN"
        /\ WireCount(i, cb) = 1

\* ------------------------------------------------------------------ C5
\* C5: when the provider failed a delivery to endpoint E of user U with a
\* permanent-failure status during a sendPushToUser(U) call, the call returns
\* with no subscription of U for E left in storage.
C5_PrunedAfterGone ==
    pushCall.status = "returned" =>
        \A e \in pushCall.gone :
            \A s \in pushSubscriptions :
                ~(s.userId = pushCall.userId /\ s.endpoint = e)

\* ------------------------------------------------------------------ C6
\* C6: once the primary persistence step of a write route has succeeded, the
\* response is the success response.
C6_PrimaryDecides ==
    \A r \in Invocations :
        (req[r].pc = "done" /\ req[r].primaryOk) =>
            req[r].status = SuccessStatus(req[r].route)

\* ----------------------------------------------------------------- C11
\* The channels one direct dispatcher call wrote to, and how often: its
\* message is written by that call only.
WritesOf(k, c) == CopiesIn(DirectMsg(k), sent[c])

\* C11: sendNotificationToUser for a user with no entry in userConnections
\* returns without throwing and writes to no channel.
C11_NoOpSafety ==
    (dispatchCall.fn = "toUser" /\ dispatchCall.userId \notin DOMAIN dispatchCall.reg)
    => /\ dispatchCall.outcome = "returned"
       /\ \A c \in Channels : WritesOf(dispatchCall.count, c) = 0

\* The user had no entry while another user had an open registered channel,
\* and an earlier call did write.
C11_Witness ==
    /\ dispatchCall.fn = "toUser"
    /\ dispatchCall.userId \notin DOMAIN dispatchCall.reg
    /\ \E u \in DOMAIN dispatchCall.reg : \E c \in dispatchCall.reg[u] :
          dispatchCall.state[c] = "OPEN"
    /\ dispatchCall.count = 2
    /\ \E c \in Channels : WritesOf(1, c) > 0

\* ----------------------------------------------------------------- C12
\* The state half of C12: a sendNotificationToUser call wrote its message once
\* to every OPEN channel of the user's set and to no other channel, and
\* returned.
C12_OpenOnly ==
    dispatchCall.fn = "toUser" =>
        /\ dispatchCall.outcome = "returned"
        /\ \A c \in Channels :
              WritesOf(dispatchCall.count, c) =
                 IF /\ dispatchCall.userId \in DOMAIN dispatchCall.reg
                    /\ c \in dispatchCall.reg[dispatchCall.userId]
                    /\ dispatchCall.state[c] = "OPEN"
                 THEN 1 ELSE 0

\* The step half of C12: a call of either dispatcher function leaves
\* userConnections, and every channel's readyState, as they were.
C12_RegistryKept ==
    dispatchCall' # dispatchCall =>
        /\ userConnections' = userConnections
        /\ readyState' = readyState
        /\ dispatchCall'.reg = userConnections'

\* C12: sendNotificationToUser writes only to the user's channels whose
\* readyState is OPEN; a registered channel in another state gets nothing,
\* raises no error and stays registered; neither dispatcher function changes
\* userConnections.
C12_SkipsNonOpen == []C12_OpenOnly /\ [][C12_RegistryKept]_vars

\* The user had one OPEN and one CLOSING channel registered at the call; the
\* CLOSING one got nothing and is still registered.
C12_Witness ==
    /\ dispatchCall.fn = "toUser"
    /\ dispatchCall.userId \in DOMAIN dispatchCall.reg
    /\ \E c, d \in dispatchCall.reg[dispatchCall.userId] :
          /\ dispatchCall.state[c] = "OPEN"
          /\ dispatchCall.state[d] = "CLOSING"
          /\ WritesOf(dispatchCall.count, c) = 1
          /\ WritesOf(dispatchCall.count, d) = 0
          /\ dispatchCall.userId \in DOMAIN userConnections
          /\ d \in userConnections[dispatchCall.userId]

\* ----------------------------------------------------------------- C13
\* C13: sendNotificationToAllUsers(X, payload) writes exactly one message to
\* every OPEN channel registered under a user other than X and nothing to the
\* channels of X's own connection set.
C13_AllButExcluded ==
    dispatchCall.fn = "toAll" =>
        \A c \in Channels :
            LET reg == dispatchCall.reg
                x == dispatchCall.userId
                inOwn == x \in DOMAIN reg /\ c \in reg[x]
                inOther == \E u \in DOMAIN reg : u # x /\ c \in reg[u]
            IN  /\ inOwn => WritesOf(dispatchCall.count, c) = 0
                /\ (inOther /\ dispatchCall.state[c] = "OPEN")
                      => WritesOf(dispatchCall.count, c) = 1

\* ----------------------------------------------------------------- C14
\* The endpoints of the subscriptions the sendPushToUser call loaded.
LoadedEndpoints == {x.endpoint : x \in pushCall.loaded}

\* The state half of C14: no subscription is attempted twice in a call, while
\* the loop runs exactly the loaded subscriptions not yet attempted are left
\* and each can be attempted, and the call returns only after every loaded
\* subscription was attempted.
C14_AllAttemptedOnce ==
    /\ \A e \in Endpoints : pushCall.attempts[e] <= 1
    /\ pushCall.status = "sending" =>
          /\ pushCall.remaining = {e \in LoadedEndpoints : pushCall.attempts[e] = 0}
          /\ pushCall.remaining # {}
          /\ \A e \in pushCall.remaining : ENABLED SendPushToUserAttempt(e, "ok")
    /\ (pushCall.status = "returned" /\ ~pushCall.loadFailed) =>
          \A e \in LoadedEndpoints : pushCall.attempts[e] = 1

\* The step half of C14: the step in which a delivery fails with a transient
\* error leaves the stored subscriptions as they were.
C14_TransientKeeps ==
    (\E e \in Endpoints : e \in pushCall'.transient /\ e \notin pushCall.transient)
    => pushSubscriptions' = pushSubscriptions

\* C14: in sendPushToUser a delivery that fails with a transient error deletes
\* no subscription and does not stop the loop: every remaining subscription is
\* still attempted in the call, none more than once.
C14_TransientContinues == []C14_AllAttemptedOnce /\ [][C14_TransientKeeps]_vars

\* Both deliveries of a call failed with a transient error: the second was
\* attempted after the first had failed, and both rows are still stored.
C14_Witness ==
    /\ pushCall.status = "returned"
    /\ Cardinality(pushCall.loaded) >= 2
    /\ pushCall.transient = LoadedEndpoints
    /\ pushCall.loaded \subseteq pushSubscriptions

\* ----------------------------------------------------------------- C15
\* C15: sendPushToUser returns the number of the user's loaded subscriptions
\* for which the provider send succeeded, between 0 and the number of
\* subscriptions, and returns 0 (it never throws) when loading them failed.
C15_ReturnsSuccesses ==
    /\ pushCall.status \in {"idle", "loading", "sending", "returned"}
    /\ pushCall.status = "returned" =>
          /\ pushCall.result = Cardinality(pushCall.succeeded)
          /\ pushCall.succeeded \subseteq LoadedEndpoints
          /\ pushCall.result \in 0..Cardinality(pushCall.loaded)
          /\ \A x \in pushCall.loaded : x.userId = pushCall.userId
          /\ pushCall.loadFailed => pushCall.result = 0

\* A call over two subscriptions returned 1: one send succeeded, one failed.
C15_Witness ==
    /\ pushCall.status = "returned"
    /\ Cardinality(pushCall.loaded) = 2
    /\ pushCall.result = 1
    /\ pushCall.succeeded # LoadedEndpoints

\* ----------------------------------------------------------------- C16
\* C16: sendPushToAllUsers(X, payload) attempts no delivery to a subscription
\* owned by X, calls sendPushToUser once for every other known user, with or
\* without a live WebSocket channel, and returns the number of deliveries that
\* succeeded over all of them; when getAllUsers fails no user is known to the
\* call, nothing is attempted and it returns 0.
C16_AllOtherKnownUsers ==
    pushAll.status # "idle" =>
        /\ \A x \in pushAll.attempted : x.userId # pushAll.exclude
        /\ pushAll.invoked[pushAll.exclude] = 0
        /\ \A u \in KnownUsers : pushAll.invoked[u] <= 1
        /\ (pushAll.status = "returned" /\ pushAll.known # {}) =>
              /\ \A u \in pushAll.known \ {pushAll.exclude} : pushAll.invoked[u] = 1
              /\ pushAll.result = Cardinality(pushAll.delivered)
        /\ (pushAll.status = "returned" /\ pushAll.known = {}) =>
              /\ pushAll.result = 0
              /\ pushAll.attempted = {}

\* The call returned 2: one delivery each to two users, one of them without a
\* registry entry, while the excluded user has a subscription stored.
C16_Witness ==
    /\ pushAll.status = "returned"
    /\ pushAll.result = 2
    /\ \E x, y \in pushAll.delivered :
          /\ x.userId # y.userId
          /\ x.userId \notin DOMAIN userConnections
          /\ y.userId \in DOMAIN userConnections
    /\ \E s \in pushSubscriptions : s.userId = pushAll.exclude

\* ----------------------------------------------------------------- C20
\* C20: at most one stored push subscription exists per endpoint, and a
\* subscribe with an endpoint already stored adds no row.
C20_EndpointUnique ==
    /\ \A s, t \in pushSubscriptions : s.endpoint = t.endpoint => s = t
    /\ lastSave.conflict => lastSave.added = 0

\* An endpoint stored for one user was subscribed again by another user, and
\* the other endpoint is stored as well.
C20_Witness ==
    /\ lastSave.conflict
    /\ Cardinality(pushSubscriptions) = NumEndpoints
    /\ \E x \in pushCall.loaded : \E s \in pushSubscriptions :
          s.endpoint = x.endpoint /\ s.id = x.id /\ s.userId # x.userId

\* ----------------------------------------------------------------- C17
\* C17: every notification row is created with isRead = false, and no step of
\* the fan-out or of the notification routes takes a row's isRead from true to
\* false (or removes a read row).
C17_ReadMonotonicStep ==
    /\ \A n \in notifications :
          n.isRead => \E m \in notifications' : m.id = n.id /\ m.isRead
    /\ \A m \in notifications' :
          (\A n \in notifications : n.id # m.id) => ~m.isRead

C17_ReadMonotonic == [][C17_ReadMonotonicStep]_vars

\* A row read by its owner is still read after a mark-all of another user, and
\* the same owner has an unread row next to it.
C17_Witness ==
    /\ Len(markCalls) = 2
    /\ markCalls[1].route = "readAll" /\ markCalls[1].executed
    /\ markCalls[2].route = "read" /\ markCalls[2].executed
    /\ markCalls[1].userId # markCalls[2].userId
    /\ markCalls[2].owner = markCalls[2].userId
    /\ \E n, m \in notifications :
          /\ n.id = markCalls[2].id /\ n.isRead
          /\ m.userId = n.userId /\ ~m.isRead

\* ----------------------------------------------------------------- C18
\* C18: two markNotificationAsRead(id, userId) calls in succession by the
\* row's owner, both run by the store: the row is read after the first and
\* after the second, and neither call fails.
C18_IdempotentMarkRead ==
    (/\ Len(markCalls) >= 2
     /\ markCalls[1].route = "read" /\ markCalls[2].route = "read"
     /\ markCalls[1].id = markCalls[2].id
     /\ markCalls[1].userId = markCalls[2].userId
     /\ markCalls[1].executed /\ markCalls[2].executed
     /\ markCalls[2].owner = markCalls[2].userId)
    => /\ markCalls[2].status = 200
       /\ markCalls[2].readAfter
       /\ markCalls[1].status = 200
       /\ markCalls[1].readBefore
       /\ markCalls[1].readAfter
       /\ markCalls[1].changed = {}
       /\ \E n \in notifications : n.id = markCalls[1].id /\ n.isRead

\* The owner marked an unread row read and then marked it again.
C18_Witness ==
    /\ Len(markCalls) >= 2
    /\ markCalls[1].route = "read" /\ markCalls[2].route = "read"
    /\ markCalls[1].id = markCalls[2].id
    /\ markCalls[1].userId = markCalls[2].userId
    /\ markCalls[1].executed /\ markCalls[2].executed
    /\ markCalls[2].owner = markCalls[2].userId
    /\ ~markCalls[2].readBefore
    /\ markCalls[2].changed = {markCalls[2].id}
    /\ markCalls[1].status = 200

\* ----------------------------------------------------------------- C19
\* C19: a PATCH /api/notifications/:id/read by user V on a row whose recipient
\* is another user U leaves that row's isRead, and every other row, as it was.
C19_OwnerScoped ==
    \A k \in 1..Len(markCalls) :
        (/\ markCalls[k].route = "read"
         /\ markCalls[k].owner # 0
         /\ markCalls[k].owner # markCalls[k].userId)
        => /\ markCalls[k].changed = {}
           /\ markCalls[k].readAfter = markCalls[k].readBefore

\* V's request named an unread row of U while V had an unread row of their own;
\* the store ran it and answered 200, and both rows are still unread.
C19_Witness ==
    /\ Len(markCalls) = 1
    /\ markCalls[1].route = "read" /\ markCalls[1].executed
    /\ markCalls[1].status = 200
    /\ markCalls[1].owner # 0 /\ markCalls[1].owner # markCalls[1].userId
    /\ \E n, m \in notifications :
          /\ n.id = markCalls[1].id /\ ~n.isRead
          /\ m.userId = markCalls[1].userId /\ ~m.isRead

\* ------------------------------------------------- the WebSocket endpoint
\* The channels the registry holds for a userId: none when it has no entry.
RegisteredUnder(reg, userId) == IF userId \in DOMAIN reg THEN reg[userId] ELSE {}

\* The step handled, on channel c, the authenticate message carrying userId.
HandledAuthenticate(c, userId) ==
    received'[c] = received[c] (+) SetToBag({AuthenticateMsg(userId)})

\* The step handled, on channel c, the inbound message msg.
Handled(c, msg) == received'[c] = received[c] (+) SetToBag({msg})

\* The inbound messages that are not an authenticate message with a user's id.
IllFormed == InboundMessages \ {AuthenticateMsg(u) : u \in Users}

\* C21: a channel is in the registry under a userId only after it sent an
\* authenticate message carrying that userId, which is never empty; each such
\* message registers the channel under the userId it carries and writes one
\* authenticated reply naming that userId to the channel, so the replies on a
\* channel count the authenticate messages it sent.
C21_RegisteredByAuthenticate ==
    /\ [](\A u \in DOMAIN userConnections :
            /\ u \in Users
            /\ \A c \in userConnections[u] :
                  CopiesIn(AuthenticateMsg(u), received[c]) > 0)
    /\ [](\A c \in Channels :
            /\ \A u \in Users :
                  CopiesIn(AuthenticatedMsg(u), sent[c])
                      = CopiesIn(AuthenticateMsg(u), received[c])
            /\ BagToSet(sent[c]) \subseteq {AuthenticatedMsg(u) : u \in Users})
    /\ [][\A c \in Channels, u \in Users :
            HandledAuthenticate(c, u) =>
                /\ c \in RegisteredUnder(userConnections', u)
                /\ sent'[c] = sent[c] (+) SetToBag({AuthenticatedMsg(u)})]_vars

\* A channel that sent an ignored message and then an authenticate message is
\* registered and holds the one reply.
C21_Witness ==
    \E c \in Channels, u \in Users :
        /\ c \in RegisteredUnder(userConnections, u)
        /\ CopiesIn(AuthenticateMsg(u), received[c]) = 1
        /\ CopiesIn(AuthenticatedMsg(u), sent[c]) = 1
        /\ BagCardinality(received[c]) = 2

\* C22: an inbound message that is not a well-formed authenticate message
\* (unparsable, null, another type, or a missing or empty userId) leaves the
\* registry unchanged, writes nothing to any channel and leaves every
\* channel's readyState as it was.
C22_IllFormedIgnored ==
    [][\A c \in Channels, msg \in IllFormed :
          Handled(c, msg) =>
              /\ userConnections' = userConnections
              /\ closeHandlers' = closeHandlers
              /\ sent' = sent
              /\ readyState' = readyState]_vars

\* An authenticate message with an empty userId was handled by a channel that
\* is still OPEN and unregistered.
C22_Witness ==
    \E c \in Channels :
        /\ CopiesIn(AuthenticateMsg(EmptyUserId), received[c]) = 1
        /\ readyState[c] = "OPEN"
        /\ sent[c] = EmptyBag
        /\ \A u \in DOMAIN userConnections : c \notin userConnections[u]

\* C25: registering a channel that is already in the user's set leaves the
\* registry unchanged and is answered like any registration, and once the
\* channel has closed it is in no set, however often it was registered.
C25_ReRegistrationIdempotent ==
    /\ [][\A c \in Channels, u \in Users :
            (HandledAuthenticate(c, u) /\ c \in RegisteredUnder(userConnections, u)) =>
                /\ userConnections' = userConnections
                /\ sent'[c] = sent[c] (+) SetToBag({AuthenticatedMsg(u)})]_vars
    /\ [](\A c \in Channels :
            readyState[c] = "CLOSED" =>
                \A u \in DOMAIN userConnections : c \notin userConnections[u])

\* A channel registered twice under one user, next to another channel of that
\* user, has closed: the other channel alone is left.
C25_Witness ==
    \E c \in Channels, u \in Users :
        /\ CopiesIn(AuthenticateMsg(u), received[c]) = 2
        /\ readyState[c] = "CLOSED"
        /\ u \in DOMAIN userConnections
        /\ c \notin userConnections[u]
        /\ userConnections[u] # {}

\* ----------------------------------------------------------------- C24
\* The state half of C24: while R1's createNotification is pending, every
\* other recipient R2 of the same fan-out has had its own call issued: its
\* insert can complete, or its row exists and its function can resume or has
\* finished, or its own insert failed.
C24_NotDelayed ==
    \A i \in Invocations : \A r1, r2 \in fanout[i].targets :
        (r1 # r2 /\ fanout[i].task[r1] = "pending") =>
            \/ fanout[i].task[r2] = "pending" /\ ENABLED StorageOk(i, r2)
            \/ /\ fanout[i].task[r2] = "stored"
               /\ \E n \in RecordsOf(i) : n.userId = r2
               /\ ENABLED Resume(i, r2)
            \/ /\ fanout[i].task[r2] = "done"
               /\ \E n \in RecordsOf(i) : n.userId = r2
            \/ fanout[i].task[r2] = "failed"

\* The step half of C24: while R1's call is pending, the step that resumes R2
\* writes the wire message of R2's row once to every OPEN channel of R2, and
\* R1's call is still pending afterwards.
C24_DispatchedMeanwhile ==
    \A i \in Invocations : \A r1, r2 \in Users :
        (/\ r1 # r2
         /\ fanout[i].task[r1] = "pending"
         /\ fanout[i].task[r2] = "stored"
         /\ fanout'[i].task[r2] = "done")
        => /\ fanout'[i].task[r1] = "pending"
           /\ \A n \in RecordsOf(i) : \A c \in Channels :
                 (/\ n.userId = r2
                  /\ r2 \in DOMAIN userConnections
                  /\ c \in userConnections[r2]
                  /\ readyState[c] = "OPEN")
                 => CopiesIn(NotificationMsg(n), sent'[c])
                       = CopiesIn(NotificationMsg(n), sent[c]) + 1

\* C24: a createNotification call that stays pending for one recipient does
\* not delay the other recipients of the fan-out: their calls are issued,
\* their rows created and their wire messages written meanwhile.
C24_SlowRecipientDoesNotBlock == []C24_NotDelayed /\ [][C24_DispatchedMeanwhile]_vars

\* R1's insert is still pending; R2 of the same fan-out has its row, and an
\* open channel of R2 holds that row's wire message.
C24_Witness ==
    \E i \in Invocations : \E r1, r2 \in fanout[i].targets :
        /\ r1 # r2
        /\ fanout[i].task[r1] = "pending"
        /\ fanout[i].task[r2] = "done"
        /\ \E n \in RecordsOf(i) : \E c \in Channels :
              /\ n.userId = r2
              /\ readyState[c] = "OPEN"
              /\ CopiesIn(NotificationMsg(n), sent[c]) = 1

\* ----------------------------------------------------------------- C26
\* The notification wire messages the step wrote to channel c.
NewNotificationMsgsOn(c) ==
    {m \in BagToSet(sent'[c]) :
        m.type = "notification" /\ CopiesIn(m, sent'[c]) > CopiesIn(m, sent[c])}

\* C26: every notification wire message the fan-out writes carries the id of
\* a row that was in the notifications table before the write, with the row's
\* type and title, and the channel written to is, at the write, in the
\* connection set of that row's recipient.
C26_PersistBeforeDispatch ==
    [][\A c \in Channels : \A m \in NewNotificationMsgsOn(c) :
          \E n \in notifications :
              /\ m.id = n.id
              /\ m.ntype = n.type
              /\ m.title = n.title
              /\ n.userId \in DOMAIN userConnections
              /\ c \in userConnections[n.userId]]_vars

\* A channel that has closed since, and is registered under nobody, holds the
\* wire message of a row of the user it was registered under.
C26_Witness ==
    \E c \in Channels : \E n \in notifications :
        /\ CopiesIn(NotificationMsg(n), sent[c]) = 1
        /\ CopiesIn(AuthenticatedMsg(n.userId), sent[c]) > 0
        /\ readyState[c] = "CLOSED"
        /\ OwnersOf(c) = {}

\* ----------------------------------------------------------------- C27
\* The state half of C27: the recipients of a started invocation are among
\* the users registered when it was invoked, every row it created belongs to
\* one of them, and a recipient's pending insert can complete whether or not
\* that user is still registered.
C27_RecipientsOfSnapshot ==
    \A i \in Invocations :
        /\ fanout[i].targets \subseteq fanout[i].snapshot
        /\ \A n \in RecordsOf(i) :
              n.userId \in fanout[i].targets /\ n.userId \in fanout[i].snapshot
        /\ \A u \in fanout[i].targets :
              fanout[i].task[u] = "pending" => ENABLED StorageOk(i, u)

\* The step half of C27: the snapshot is the registry's key set at the
\* invocation, every recipient has a registered channel then, and neither the
\* snapshot nor the recipient set changes afterwards.
C27_FixedAtInvocation ==
    \A i \in Invocations :
        /\ (fanout[i].status = "idle" /\ fanout'[i].status # "idle")
              => /\ fanout'[i].snapshot = DOMAIN userConnections
                 /\ \A u \in fanout'[i].targets :
                       u \in DOMAIN userConnections /\ userConnections[u] # {}
        /\ fanout[i].status # "idle"
              => /\ fanout'[i].snapshot = fanout[i].snapshot
                 /\ fanout'[i].targets = fanout[i].targets

\* C27: the recipient set of one invocation is fixed when it is invoked:
\* every row it creates belongs to a user registered at that moment, whatever
\* registers or closes while the inserts are pending.
C27_RecipientSetFixed == []C27_RecipientsOfSnapshot /\ [][C27_FixedAtInvocation]_vars

\* An invocation has returned; a recipient who is no longer registered has a
\* row whose wire message no channel holds, and a user registered now, who
\* was not registered at the invocation, has no row.
C27_Witness ==
    \E i \in Invocations : \E u, v \in Users :
        /\ fanout[i].status = "resolved"
        /\ fanout[i].task[u] = "done"
        /\ u \notin DOMAIN userConnections
        /\ \E n \in RecordsOf(i) :
              /\ n.userId = u
              /\ \A c \in Channels : CopiesIn(NotificationMsg(n), sent[c]) = 0
        /\ v \in DOMAIN userConnections
        /\ v \notin fanout[i].snapshot
        /\ \A n \in RecordsOf(i) : n.userId # v

\* ----------------------------------------------------------------- C23
\* The rows persisted for comments whose text is longer than PreviewLength.
LongCommentRows ==
    {n \in notifications :
        n.type = "comment_created" /\ Len(req[n.inv].text) > PreviewLength}

\* The first PreviewLength characters of the text followed by "...".
CutText(text) == SubSeq(text, 1, PreviewLength) \o <<".", ".", ".">>

\* C23 as stated: the message of a row persisted for a comment longer than 50
\* characters equals the first 50 characters of the text followed by "...".
C23_MessageIsCutText ==
    \A n \in LongCommentRows : n.message = CutText(req[n.inv].text)

\* C23, amended: the message of a row persisted for a comment longer than 50
\* characters equals "<commenter's display name> commented on <apartment's
\* label or address>: " followed by the first 50 characters of the text
\* followed by "...".
C23_MessageEndsWithCutText ==
    \A n \in LongCommentRows :
        n.message = <<UserDisplayName(n.actorId), " commented on ", ApartmentName, ": ">>
                        \o CutText(req[n.inv].text)

\* A row was persisted for a comment of more than 50 characters.
C23_Witness ==
    \E n \in LongCommentRows :
        /\ n.userId # n.actorId
        /\ Len(n.message) = 4 + PreviewLength + 3

\* ----------------------------------------------------------------- C28
\* The state half of C28: the favourite route's fan-out has started only if
\* its toggle inserted the favourite and its apartment lookup returned a row,
\* and a route whose toggle removed the favourite has no fan-out, no
\* notification row and no wire message.
C28_OnlyWhenFavorited ==
    \A r \in Invocations :
        req[r].route = "favorite" =>
            /\ fanout[r].status # "idle" =>
                  /\ fanout[r].type = "favorite_created"
                  /\ req[r].isFavorited
                  /\ ~req[r].existing
                  /\ req[r].apartment = "row"
            /\ (req[r].primaryOk /\ req[r].existing) =>
                  /\ fanout[r].status = "idle"
                  /\ RecordsOf(r) = {}
                  /\ \A c \in Channels : \A m \in NotificationMsgsOn(c) :
                        m.id[1] # r

\* The step half of C28: the toggle's answer says whether its write left a
\* favourite row of the user behind.
C28_AnswerIsTableState ==
    \A r \in Invocations :
        (req[r].pc = "toggleWrite" /\ req'[r].pc = "getApartment") =>
            /\ req'[r].isFavorited = (\E f \in favorites' : f.id = r)
            /\ ~req'[r].isFavorited => ExistingFavorites(favorites', req[r].user) = {}

\* C28: the favourite route invokes the fan-out, with type favorite_created,
\* only when the toggle left the apartment favourited and the apartment
\* exists; a toggle that removes the favourite creates no row and no message.
C28_FavoriteFanOut == []C28_OnlyWhenFavorited /\ [][C28_AnswerIsTableState]_vars

\* One request favourited the apartment and its fan-out created a row; a
\* later request of the same user removed the favourite, found the apartment
\* and answered 200 without any fan-out.
C28_Witness ==
    \E r1, r2 \in Invocations :
        /\ r1 # r2
        /\ req[r1].route = "favorite" /\ req[r2].route = "favorite"
        /\ req[r1].user = req[r2].user
        /\ RecordsOf(r1) # {}
        /\ req[r2].existing /\ req[r2].apartment = "row"
        /\ req[r2].pc = "done" /\ req[r2].status = 200
        /\ fanout[r2].status = "idle"
        /\ favorites = {}

\* ----------------------------------------------------------------- C29
\* C29: for every user, the favorites table holds at most one row of that
\* user for the apartment, in every reachable state.
C29_AtMostOneFavorite ==
    \A u \in Users : Cardinality(ExistingFavorites(favorites, u)) <= 1

\* ----------------------------------------------------------------- C30
\* C30: an unsubscribe request by user V naming an endpoint whose stored
\* subscription belongs to another user leaves that subscription in storage.
C30_OwnSubscriptionOnly ==
    [][\A v \in KnownUsers, e \in Endpoints :
          Unsubscribe(v, e) =>
              \A s \in pushSubscriptions :
                  (s.endpoint = e /\ s.userId # v) => s \in pushSubscriptions']_vars
====
